---- MODULE Spec2Model ----
(***************************************************************************)
(* A model of the journal manager `jn`:                                    *)
(*   - crypto.rs : key normalisation and the AES-256-GCM envelope          *)
(*   - types.rs  : the on-disk header codec and Journal::open / bytes      *)
(*   - export/aws.rs : the incremental export against a remote manifest    *)
(*   - export/zip.rs, handler.rs : the zip export and the search loop      *)
(*   - fs/editor.rs, types.rs : Journal::create / edit through a temp file *)
(* Each subsystem has its own specification (SpecCrypto, SpecJournal,      *)
(* SpecExport, SpecBulk, SpecEdit) and SpecRace runs two edits of one      *)
(* journal side by side; the variables of the other subsystems stay at     *)
(* rest.                                                                   *)
(***************************************************************************)
EXTENDS Integers, Sequences, FiniteSets, TLC

VARIABLES
    c_key,      \* crypto: the key string handed to encrypt / decrypt
    c_data,     \* crypto: the plaintext handed to encrypt
    c_enc,      \* crypto: the Result of the last encrypt call (or NoCall)
    c_dec,      \* crypto: the Result of the last decrypt call (or NoCall)
    c_decin,    \* crypto: the (nonce, tag, data) the last decrypt call was given
    c_rng,      \* crypto: number of SystemRandom::fill calls made so far
    c_ops,      \* crypto: number of cipher operations (key schedule, seal, open) so far
    c_norm,     \* crypto: what get_key returned in the last encrypt / decrypt call
    c_callkey,  \* crypto: the key string the last encrypt / decrypt call was given
    j_file,     \* journal: the bytes of the backing file
    j_key,      \* journal: Option<String> key given to Journal::open
    j_open,     \* journal: the outcome of Journal::open (or NoCall)
    j_bytes,    \* journal: the outcome of Journal::bytes (or NoCall)
    j_enc,      \* journal: the outcome of Header::encode on the decoded header
    j_calls,    \* journal: number of crypto::decrypt calls made by Journal::bytes
    e_filter,   \* export: AwsS3Config.workspaces, Option<Vec<String>>
    e_local,    \* export: key -> bytes of the local journal file
    e_remote,   \* export: key -> Option<bytes>, the file objects of the bucket
    e_rmanifest,\* export: Option<bytes>, the bucket's manifest.json object
    e_pc,       \* export: where the running export() is
    e_dryrun,   \* export: the dryrun argument of the run
    e_old,      \* export: old_manifest of the run
    e_new,      \* export: new_manifest of the run
    e_todo,     \* export: the (workspace, file) pairs the loops have yet to visit
    e_exported, \* export: Vec exported of the run
    e_skipped,  \* export: Vec skipped of the run
    e_uploaded, \* export: keys of the file objects put by the run, in order
    e_mputs,    \* export: number of manifest.json puts made by the run
    e_prev,     \* export: what the previous run fetched, saw, returned and produced
    e_fetch,    \* export: what get_manifest of the run met and returned (or NoCall)
    e_runs,     \* export: number of runs started
    e_edits,    \* export: number of local edits made
    b_files,    \* bulk: "{workspace}/{filename}" -> bytes of the stored journal
    b_key,      \* bulk: Option<String> key given to zip::export / handle_search
    b_op,       \* bulk: the operation that runs or has run: "none", "zip", "search"
    b_pc,       \* bulk: where the operation is
    b_todo,     \* bulk: the (workspace, file) pairs the loops have yet to visit
    b_exported, \* bulk: Vec exported of zip::export
    b_skipped,  \* bulk: Vec skipped of zip::export
    b_archive,  \* bulk: the entries written to the zip archive, in order
    b_log,      \* bulk: what happened to each file visited so far, in order
    b_out,      \* bulk: what the operation returned (or NoCall)
    d_file,     \* edit: Option<bytes>, the backing file of the journal
    d_temp,     \* edit: Option<bytes>, the file temp_dir()/filename
    d_before,   \* edit: d_file when the last create / edit call started
    d_res,      \* edit: the Result of the last create / edit call (or NoCall)
    d_in,       \* edit: the inputs and faults of the last create / edit call
    d_ops,      \* edit: number of create / edit calls made
    r_file,     \* race: the bytes of the journal file both processes edit
    r_temp,     \* race: Option<bytes>, the file temp_dir()/filename
    r_pc,       \* race: process -> where its handle_open is
    r_key,      \* race: process -> Option<String> key of its command line
    r_buf,      \* race: process -> the content it holds (read, then edited)
    r_pos,      \* race: process -> the offset of its file descriptor
    r_plan      \* race: process -> the header and payload Journal::write emits

cryptoVars ==
    <<c_key, c_data, c_enc, c_dec, c_decin, c_rng, c_ops, c_norm, c_callkey>>
journalVars == <<j_file, j_key, j_open, j_bytes, j_enc, j_calls>>
exportVars ==
    <<e_filter, e_local, e_remote, e_rmanifest, e_pc, e_dryrun, e_old, e_new, e_todo,
      e_exported, e_skipped, e_uploaded, e_mputs, e_prev, e_fetch,
      e_runs, e_edits>>
bulkVars ==
    <<b_files, b_key, b_op, b_pc, b_todo, b_exported, b_skipped, b_archive, b_log, b_out>>
editVars == <<d_file, d_temp, d_before, d_res, d_in, d_ops>>
raceVars == <<r_file, r_temp, r_pc, r_key, r_buf, r_pos, r_plan>>

NoCall == [kind |-> "none"]
None == [some |-> FALSE]
Some(v) == [some |-> TRUE, val |-> v]

(***************************************************************************)
(* Bounds of the model.                                                    *)
(***************************************************************************)
MaxKeyLen == 33
MaxPlainLen == 2

(***************************************************************************)
(* Byte helpers.                                                           *)
(***************************************************************************)
ByteMod == 256

RECURSIVE SumSeq(_)
SumSeq(s) == IF s = <<>> THEN 0 ELSE (s[1] + SumSeq(Tail(s))) % ByteMod

Repeat(b, n) == [i \in 1..n |-> b]

RECURSIVE SeqsUpTo(_, _)
SeqsUpTo(S, n) ==
    IF n = 0 THEN {<<>>}
    ELSE LET shorter == SeqsUpTo(S, n - 1)
         IN shorter \cup {Append(s, b) : s \in {t \in shorter : Len(t) = n - 1}, b \in S}

(***************************************************************************)
(* crypto.rs                                                               *)
(***************************************************************************)
KEY_LEN == 32
MIN_KEY_LEN == 8
NONCE_LEN == 12
TAG_LEN == 16

Ok(v) == [kind |-> "ok", val |-> v]
Err(e) == [kind |-> "err", err |-> e]

\* get_key with the padding left out.
get_key_nopad(key_str) ==
    IF Len(key_str) = 0 THEN Err("KeyInvalid")
    ELSE IF Len(key_str) < MIN_KEY_LEN THEN Err("KeyInvalid")
    ELSE IF Len(key_str) > KEY_LEN THEN Err("KeyInvalid")
    ELSE Ok(key_str)

get_key(key_str) ==
    IF Len(key_str) = 0 THEN Err("KeyInvalid")
    ELSE IF Len(key_str) < MIN_KEY_LEN THEN Err("KeyInvalid")
    ELSE IF Len(key_str) > KEY_LEN THEN Err("KeyInvalid")
    ELSE Ok(key_str \o Repeat(0, KEY_LEN - Len(key_str)))

\* The cipher: a counter-mode keystream derived from key and nonce, and a
\* separate tag computed over key, nonce and ciphertext. As the GCM tag does
\* (up to a negligible probability), the tag tells apart any two keys of the
\* model, and any two nonces or ciphertexts that differ in one byte.
KeyStream(key, nonce, i) == (SumSeq(key) + 3 * SumSeq(nonce) + 7 * i) % ByteMod

\* A digest of the ciphertext in which every byte weighs an odd factor.
RECURSIVE OddWeightedSum(_)
OddWeightedSum(s) ==
    IF s = <<>> THEN 0
    ELSE ((2 * Len(s) - 1) * (s[Len(s)] + 1) + OddWeightedSum(SubSeq(s, 1, Len(s) - 1)))
         % ByteMod

Mac(key, nonce, ct) ==
    [j \in 1..TAG_LEN |->
        (key[j] + 3 * key[j + TAG_LEN] + 7 * nonce[((j - 1) % NONCE_LEN) + 1]
         + 11 * OddWeightedSum(ct) + 13 * j * (Len(ct) + 1)) % ByteMod]

\* SealingKey::seal_in_place_separate_tag with Aad::empty()
seal_in_place_separate_tag(key, nonce, data) ==
    IF Len(nonce) # NONCE_LEN THEN Err("Unspecified")
    ELSE LET ct == [i \in 1..Len(data) |-> (data[i] + KeyStream(key, nonce, i)) % ByteMod]
         IN Ok([ciphertext |-> ct, tag |-> Mac(key, nonce, ct)])

\* open_in_place that returns the bytes without comparing the tag.
open_in_place_unchecked(key, nonce, in_out) ==
    IF Len(nonce) # NONCE_LEN THEN Err("AuthenticationFailed")
    ELSE IF Len(in_out) < TAG_LEN THEN Err("AuthenticationFailed")
    ELSE LET n == Len(in_out) - TAG_LEN
             ct == SubSeq(in_out, 1, n)
         IN Ok([i \in 1..n |-> (ct[i] - KeyStream(key, nonce, i)) % ByteMod])

\* OpeningKey::open_in_place with Aad::empty(): in_out is ciphertext || tag
open_in_place(key, nonce, in_out) ==
    IF Len(nonce) # NONCE_LEN THEN Err("AuthenticationFailed")
    ELSE IF Len(in_out) < TAG_LEN THEN Err("AuthenticationFailed")
    ELSE LET n == Len(in_out) - TAG_LEN
             ct == SubSeq(in_out, 1, n)
             tag == SubSeq(in_out, n + 1, Len(in_out))
         IN IF Mac(key, nonce, ct) # tag THEN Err("AuthenticationFailed")
            ELSE Ok([i \in 1..n |-> (ct[i] - KeyStream(key, nonce, i)) % ByteMod])

\* rnd is the outcome of SystemRandom::fill: Ok(nonce bytes) or Err.
\* The result carries the number of rng calls and cipher operations made.
encrypt(data, key, rnd) ==
    LET k == get_key(key)
    IN IF k.kind # "ok" THEN [res |-> k, key |-> k, rng |-> 0, ops |-> 0]
       ELSE IF rnd.kind # "ok"
       THEN [res |-> Err("RngFailure"), key |-> k, rng |-> 1, ops |-> 1]
       ELSE LET sealed == seal_in_place_separate_tag(k.val, rnd.val, data)
            IN IF sealed.kind # "ok"
               THEN [res |-> Err("EncryptFailure"), key |-> k, rng |-> 1, ops |-> 2]
               ELSE [res |-> Ok([ciphertext |-> sealed.val.ciphertext,
                                 nonce |-> rnd.val,
                                 tag |-> sealed.val.tag]),
                     key |-> k, rng |-> 1, ops |-> 2]

\* decrypt with the tag put in front of the data.
decrypt_tagfirst(key, nonce, tag, data) ==
    LET k == get_key(key)
    IN IF k.kind # "ok" THEN [res |-> k, key |-> k, ops |-> 0]
       ELSE [res |-> open_in_place(k.val, nonce, tag \o data), key |-> k, ops |-> 2]

decrypt(key, nonce, tag, data) ==
    LET k == get_key(key)
    IN IF k.kind # "ok" THEN [res |-> k, key |-> k, ops |-> 0]
       ELSE [res |-> open_in_place(k.val, nonce, data \o tag), key |-> k, ops |-> 2]

(***************************************************************************)
(* Inputs of the crypto specification.                                     *)
(***************************************************************************)
KeyBytes == {97, 98}
PlainBytes == {0, 1, 255}
Keys == {Repeat(b, n) : b \in KeyBytes, n \in 0..MaxKeyLen}
Plaintexts == SeqsUpTo(PlainBytes, MaxPlainLen)
RngOutcomes == {Err("Unspecified")} \cup {Ok(Repeat(b, NONCE_LEN)) : b \in {0, 9}}
DummyInput == [nonce |-> Repeat(0, NONCE_LEN), tag |-> Repeat(0, TAG_LEN), data |-> <<>>]

ExportRest ==
    /\ e_filter = None
    /\ e_local = <<>>
    /\ e_remote = <<>>
    /\ e_rmanifest = None
    /\ e_pc = "idle"
    /\ e_dryrun = FALSE
    /\ e_old = [files |-> <<>>, order |-> <<>>]
    /\ e_new = [files |-> <<>>, order |-> <<>>]
    /\ e_todo = <<>>
    /\ e_exported = <<>>
    /\ e_skipped = <<>>
    /\ e_uploaded = <<>>
    /\ e_mputs = 0
    /\ e_prev = [valid |-> FALSE]
    /\ e_fetch = [kind |-> "none"]
    /\ e_runs = 0
    /\ e_edits = 0

BulkRest ==
    /\ b_files = <<>>
    /\ b_key = None
    /\ b_op = "none"
    /\ b_pc = "idle"
    /\ b_todo = <<>>
    /\ b_exported = <<>>
    /\ b_skipped = <<>>
    /\ b_archive = <<>>
    /\ b_log = <<>>
    /\ b_out = NoCall

EditRest ==
    /\ d_file = None
    /\ d_temp = None
    /\ d_before = None
    /\ d_res = NoCall
    /\ d_in = NoCall
    /\ d_ops = 0

RaceRest ==
    /\ r_file = <<>>
    /\ r_temp = None
    /\ r_pc = <<>>
    /\ r_key = <<>>
    /\ r_buf = <<>>
    /\ r_pos = <<>>
    /\ r_plan = <<>>

JournalRest ==
    /\ j_file = <<>>
    /\ j_key = None
    /\ j_open = NoCall
    /\ j_bytes = NoCall
    /\ j_enc = NoCall
    /\ j_calls = 0

InitCrypto ==
    /\ c_key \in Keys
    /\ c_data \in Plaintexts
    /\ c_enc = NoCall
    /\ c_dec = NoCall
    /\ c_decin = NoCall
    /\ c_rng = 0
    /\ c_ops = 0
    /\ c_norm = NoCall
    /\ c_callkey = <<>>
    /\ JournalRest
    /\ ExportRest
    /\ BulkRest
    /\ EditRest
    /\ RaceRest

\* A call of encrypt(c_data, c_key).
Encrypt ==
    /\ c_enc = NoCall
    /\ \E rnd \in RngOutcomes :
          LET r == encrypt(c_data, c_key, rnd)
          IN /\ c_enc' = r.res
             /\ c_rng' = c_rng + r.rng
             /\ c_ops' = c_ops + r.ops
             /\ c_norm' = r.key
             /\ c_callkey' = c_key
    /\ UNCHANGED <<c_key, c_data, c_dec, c_decin, journalVars, exportVars, bulkVars,
                   editVars, raceVars>>

\* A call of decrypt(c_key, nonce, tag, data) on what encrypt returned.
DecryptEncrypted ==
    /\ c_enc # NoCall
    /\ c_enc.kind = "ok"
    /\ c_dec = NoCall
    /\ LET in == [nonce |-> c_enc.val.nonce, tag |-> c_enc.val.tag,
                  data |-> c_enc.val.ciphertext]
           r == decrypt(c_key, in.nonce, in.tag, in.data)
       IN /\ c_dec' = r.res
          /\ c_decin' = in
          /\ c_ops' = c_ops + r.ops
          /\ c_norm' = r.key
          /\ c_callkey' = c_key
    /\ UNCHANGED <<c_key, c_data, c_enc, c_rng, journalVars, exportVars, bulkVars,
                   editVars, raceVars>>

\* A call of decrypt(c_key, ...) on bytes that encrypt did not produce.
DecryptOther ==
    /\ c_dec = NoCall
    /\ LET r == decrypt(c_key, DummyInput.nonce, DummyInput.tag, DummyInput.data)
       IN /\ c_dec' = r.res
          /\ c_decin' = DummyInput
          /\ c_ops' = c_ops + r.ops
          /\ c_norm' = r.key
          /\ c_callkey' = c_key
    /\ UNCHANGED <<c_key, c_data, c_enc, c_rng, journalVars, exportVars, bulkVars,
                   editVars, raceVars>>

\* One bit of a byte inverted; bit is the value of the bit.
FlipBit(b, bit) == IF (b \div bit) % 2 = 1 THEN b - bit ELSE b + bit
FlipBits == {1, 128}

\* The sequence s with one bit of its byte at position i inverted.
FlipAt(s, i, bit) == [s EXCEPT ![i] = FlipBit(s[i], bit)]

\* Other key strings than key: the key followed by a NUL character, the key
\* without its last character, and the keys made of another character.
OtherKeys(key) ==
    ({Append(key, 0), SubSeq(key, 1, Len(key) - 1)}
        \cup {Repeat(b, Len(key)) : b \in KeyBytes}) \ {key}

\* What encrypt returned with one bit of the ciphertext, of the tag or of
\* the nonce inverted.
Tampered(in) ==
    {[in EXCEPT !.data = FlipAt(in.data, i, bit)] : i \in 1..Len(in.data), bit \in FlipBits}
    \cup {[in EXCEPT !.tag = FlipAt(in.tag, i, bit)] : i \in 1..Len(in.tag), bit \in FlipBits}
    \cup {[in EXCEPT !.nonce = FlipAt(in.nonce, i, bit)] :
             i \in 1..Len(in.nonce), bit \in FlipBits}

\* A call of decrypt on what encrypt returned with one bit changed, or with
\* another key string.
DecryptTampered ==
    /\ c_enc # NoCall
    /\ c_enc.kind = "ok"
    /\ c_dec = NoCall
    /\ LET in == [nonce |-> c_enc.val.nonce, tag |-> c_enc.val.tag,
                  data |-> c_enc.val.ciphertext]
       IN \E call \in {[key |-> c_key, in |-> t] : t \in Tampered(in)}
                       \cup {[key |-> k, in |-> in] : k \in OtherKeys(c_key)} :
             LET r == decrypt(call.key, call.in.nonce, call.in.tag, call.in.data)
             IN /\ c_dec' = r.res
                /\ c_decin' = call.in
                /\ c_ops' = c_ops + r.ops
                /\ c_norm' = r.key
                /\ c_callkey' = call.key
    /\ UNCHANGED <<c_key, c_data, c_enc, c_rng, journalVars, exportVars, bulkVars,
                   editVars, raceVars>>

NextCrypto == Encrypt \/ DecryptEncrypted \/ DecryptOther \/ DecryptTampered

vars == <<cryptoVars, journalVars, exportVars, bulkVars, editVars, raceVars>>

SpecCrypto == InitCrypto /\ [][NextCrypto]_vars

(***************************************************************************)
(* types.rs: Header                                                        *)
(***************************************************************************)
VERSION_1 == 1
ENCRYPTED_BIT == 128

Panic == [kind |-> "panic"]

v0 == [size |-> 0, version |-> 0, encrypted |-> FALSE, nonce |-> <<>>, tag |-> <<>>]

new_non_encrypted ==
    [size |-> 2, version |-> VERSION_1, encrypted |-> FALSE, nonce |-> <<>>, tag |-> <<>>]

new_encrypted(nonce, tag) ==
    [size |-> 4 + Len(nonce) + Len(tag), version |-> VERSION_1, encrypted |-> TRUE,
     nonce |-> nonce, tag |-> tag]

\* flags & 0x80 == 0x80
MsbSet(flags) == (flags \div ENCRYPTED_BIT) % 2 = 1

\* The bytes Header::encode hands to writer.write_all.
Header_encode(h) ==
    LET flags == IF h.encrypted THEN ENCRYPTED_BIT ELSE 0
    IN <<h.version, flags>> \o
       (IF h.encrypted
        THEN <<Len(h.nonce) % ByteMod, Len(h.tag) % ByteMod>> \o h.nonce \o h.tag
        ELSE <<>>)

\* Header::decode that takes any first byte for the current version.
Header_decode_anyversion(value) ==
    IF Len(value) = 0 THEN Ok(v0)
    ELSE IF Len(value) < 2 THEN Ok(v0)
    ELSE IF ~MsbSet(value[2])
    THEN Ok([size |-> 2, version |-> value[1], encrypted |-> FALSE,
             nonce |-> <<>>, tag |-> <<>>])
    ELSE Err("MalformedHeader")

\* value[a..b] of Rust (0-based, b exclusive) panics when b > len.
Header_decode(value) ==
    IF Len(value) = 0 THEN Ok(v0)
    ELSE IF value[1] # VERSION_1 THEN Ok(v0)
    ELSE IF Len(value) < 2 THEN Ok(v0)
    ELSE IF ~MsbSet(value[2])
    THEN Ok([size |-> 2, version |-> value[1], encrypted |-> FALSE,
             nonce |-> <<>>, tag |-> <<>>])
    ELSE IF Len(value) < 3 THEN Err("MalformedHeader")
    ELSE IF Len(value) < 4 THEN Err("MalformedHeader")
    ELSE LET nonce_size == value[3]
             tag_size == value[4]
         IN IF 4 + nonce_size > Len(value) THEN Panic
            ELSE IF 4 + nonce_size + tag_size > Len(value) THEN Panic
            ELSE Ok([size |-> 4 + nonce_size + tag_size,
                     version |-> value[1],
                     encrypted |-> TRUE,
                     nonce |-> SubSeq(value, 5, 4 + nonce_size),
                     tag |-> SubSeq(value, 5 + nonce_size, 4 + nonce_size + tag_size)])

(***************************************************************************)
(* types.rs: Journal                                                       *)
(***************************************************************************)
\* io is the outcome of FileEntry::read_bytes: TRUE when the read succeeded.
Journal_open(contents, key, io) ==
    IF ~io THEN Err("IoFailure")
    ELSE LET h == Header_decode(contents)
         IN IF h.kind # "ok" THEN h
            ELSE Ok([key |-> key, header |-> h.val, contents |-> contents])

\* The payload taken from the first byte of the file, header included.
Payload_whole(j) == j.contents

Payload(j) == SubSeq(j.contents, j.header.size + 1, Len(j.contents))

\* Journal::decrypt: require_key, then crypto::decrypt on the payload.
Journal_decrypt(j) ==
    IF ~j.key.some THEN [res |-> Err("MissingKey"), calls |-> 0]
    ELSE [res |-> decrypt(j.key.val, j.header.nonce, j.header.tag, Payload(j)).res,
          calls |-> 1]

\* Journal::bytes that decrypts whenever a key was given.
Journal_bytes_bykey(j) ==
    IF j.key.some THEN Journal_decrypt(j)
    ELSE [res |-> Ok(Payload(j)), calls |-> 0]

Journal_bytes(j) ==
    IF j.header.encrypted THEN Journal_decrypt(j)
    ELSE [res |-> Ok(Payload(j)), calls |-> 0]

\* Journal::write that writes a content without key as it is, with no header.
Journal_write_noheader(key, content, rnd) ==
    IF key.some
    THEN LET r == encrypt(content, key.val, rnd).res
         IN IF r.kind # "ok" THEN [res |-> r, bytes |-> <<>>]
            ELSE [res |-> Ok("written"),
                  bytes |-> Header_encode(new_encrypted(r.val.nonce, r.val.tag))
                            \o r.val.ciphertext]
    ELSE [res |-> Ok("written"), bytes |-> content]

\* Journal::write: the bytes handed to the writer, in order.
Journal_write(key, content, rnd) ==
    IF key.some
    THEN LET r == encrypt(content, key.val, rnd).res
         IN IF r.kind # "ok" THEN [res |-> r, bytes |-> <<>>]
            ELSE [res |-> Ok("written"),
                  bytes |-> Header_encode(new_encrypted(r.val.nonce, r.val.tag))
                            \o r.val.ciphertext]
    ELSE [res |-> Ok("written"), bytes |-> Header_encode(new_non_encrypted) \o content]

(***************************************************************************)
(* Inputs of the journal specification.                                    *)
(***************************************************************************)
MaxBufLen == 5
BufBytes == {0, 1, 2, 128}
RawBuffers == SeqsUpTo(BufBytes, MaxBufLen)
KeyOptions ==
    {None, Some(Repeat(97, MIN_KEY_LEN)), Some(Repeat(98, KEY_LEN)),
     Some(Repeat(97, MIN_KEY_LEN - 1))}

CryptoRest ==
    /\ c_key = <<>>
    /\ c_data = <<>>
    /\ c_enc = NoCall
    /\ c_dec = NoCall
    /\ c_decin = NoCall
    /\ c_rng = 0
    /\ c_ops = 0
    /\ c_norm = NoCall
    /\ c_callkey = <<>>

\* The backing file holds any bytes: legacy files, files written by earlier
\* versions and damaged files are all opened by Journal::open.
InitJournal ==
    /\ j_file \in RawBuffers
    /\ j_key = None
    /\ j_open = NoCall
    /\ j_bytes = NoCall
    /\ j_enc = NoCall
    /\ j_calls = 0
    /\ CryptoRest
    /\ ExportRest
    /\ BulkRest
    /\ EditRest
    /\ RaceRest

\* What a successful Journal::write leaves in the file.
WrittenFiles ==
    {w.bytes : w \in {x \in {Journal_write(key, content, rnd) :
                                key \in KeyOptions, content \in Plaintexts,
                                rnd \in RngOutcomes} : x.res.kind = "ok"}}

\* Journal::write of a new content over the backing file.
WriteJournal ==
    /\ j_open = NoCall
    /\ j_file' \in WrittenFiles
    /\ UNCHANGED <<j_key, j_open, j_bytes, j_enc, j_calls, cryptoVars, exportVars, bulkVars,
                   editVars, raceVars>>

\* Journal::open(file_entry, key)
OpenJournal ==
    /\ j_open = NoCall
    /\ \E key \in KeyOptions, io \in BOOLEAN :
          /\ j_key' = key
          /\ j_open' = Journal_open(j_file, key, io)
    /\ UNCHANGED <<j_file, j_bytes, j_enc, j_calls, cryptoVars, exportVars, bulkVars,
                   editVars, raceVars>>

\* journal.bytes() on the opened journal
BytesJournal ==
    /\ j_open # NoCall
    /\ j_open.kind = "ok"
    /\ j_bytes = NoCall
    /\ LET r == Journal_bytes(j_open.val)
       IN /\ j_bytes' = r.res
          /\ j_calls' = j_calls + r.calls
    /\ UNCHANGED <<j_file, j_key, j_open, j_enc, cryptoVars, exportVars, bulkVars,
                   editVars, raceVars>>

\* header.encode(writer) on the header Journal::open decoded
EncodeHeader ==
    /\ j_open # NoCall
    /\ j_open.kind = "ok"
    /\ j_enc = NoCall
    /\ j_enc' = Ok(Header_encode(j_open.val.header))
    /\ UNCHANGED <<j_file, j_key, j_open, j_bytes, j_calls, cryptoVars, exportVars, bulkVars,
                   editVars, raceVars>>

NextJournal == WriteJournal \/ OpenJournal \/ BytesJournal \/ EncodeHeader

SpecJournal == InitJournal /\ [][NextJournal]_vars

(***************************************************************************)
(* fs/mod.rs and export/aws.rs                                             *)
(***************************************************************************)
MaxRuns == 2
MaxEdits == 1

\* fs::digest: the lowercase hex SHA-256 of the data; distinct data have
\* distinct digests.
fs_digest(data) == [sha256 |-> data]

\* The local workspaces: workspace name -> Vec<FileEntry> (file names).
LocalWorkspaces == ("w1" :> <<"a", "b">>) @@ ("w2" :> <<"a">>)
FileContents == {<<1>>, <<2>>}
Filters == {None, Some({"w1"}), Some({})}

\* format!("{}/{}", workspace_name, file_entry.filename())
ObjectKey(ws, filename) == ws \o "/" \o filename

KeysOf(wss) ==
    UNION {{ObjectKey(w, LocalWorkspaces[w][i]) : i \in 1..Len(LocalWorkspaces[w])} : w \in wss}

AllKeys == KeysOf(DOMAIN LocalWorkspaces)

\* All orders in which a HashMap may iterate over the keys S.
RECURSIVE Orders(_)
Orders(S) ==
    IF S = {} THEN {<<>>}
    ELSE UNION {{<<k>> \o o : o \in Orders(S \ {k})} : k \in S}

\* A HashMap<String, String>: the mapping and the order its iterator yields.
EmptyManifest == [files |-> <<>>, order |-> <<>>]

\* Manifest::lookup
Manifest_lookup(m, key) ==
    IF key \in DOMAIN m.files THEN Some(m.files[key]) ELSE None

\* HashMap::insert: a present key keeps its slot; a new key lands in the slot
\* its hash selects, anywhere among the others.
Manifest_insert(m, key, digest) ==
    IF key \in DOMAIN m.files
    THEN {[files |-> [m.files EXCEPT ![key] = digest], order |-> m.order]}
    ELSE {[files |-> (key :> digest) @@ m.files,
           order |-> SubSeq(m.order, 1, i) \o <<key>> \o SubSeq(m.order, i + 1, Len(m.order))]
            : i \in 0..Len(m.order)}

\* Manifest::clone (derived): the copy iterates in the order of the original.
Manifest_clone(m) == m

\* serde_json::to_string_pretty(&manifest): the entries in iteration order.
to_string_pretty(m) == [i \in 1..Len(m.order) |-> <<m.order[i], m.files[m.order[i]]>>]

\* A manifest.json that is not the JSON text of a Manifest: the text cut off
\* after its opening brace.
CorruptBody == << <<"{", fs_digest(<<>>)>> >>

\* serde_json::from_reader: the mapping of the text, in a fresh HashMap whose
\* iteration order its RandomState selects.
from_reader(json) ==
    LET value(k) == json[CHOOSE i \in 1..Len(json) : json[i][1] = k][2]
        keys == {json[i][1] : i \in 1..Len(json)}
    IN IF json = CorruptBody THEN {Err("serde_json")}
       ELSE {Ok([files |-> [k \in keys |-> value(k)], order |-> o]) : o \in Orders(keys)}

\* filter_workspaces
filter_workspaces(filter, ws) ==
    IF filter.some THEN {w \in DOMAIN ws : w \in filter.val} ELSE DOMAIN ws

\* The (workspace, file) pairs in the order the two loops of export_files
\* visit them, for one iteration order of the workspace map.
RECURSIVE Flatten(_)
Flatten(wsorder) ==
    IF wsorder = <<>> THEN <<>>
    ELSE [i \in 1..Len(LocalWorkspaces[wsorder[1]]) |->
            <<wsorder[1], LocalWorkspaces[wsorder[1]][i]>>] \o Flatten(Tail(wsorder))

\* The keys of the files an export run considers.
ConsideredKeys == KeysOf(filter_workspaces(e_filter, LocalWorkspaces))

\* What can go wrong in the requests of get_manifest: list_objects fails,
\* get_object fails with another error than NoSuchKey, or the body stream
\* cannot be collected.
FetchFaults == {"none", "list", "get", "collect"}

\* list_objects(...).contents is Some: the bucket holds at least one object.
BucketListed(remote, body) == body.some \/ \E k \in DOMAIN remote : remote[k].some

\* get_manifest that returns the NoSuchKey error as any other error.
get_manifest_strict(remote, body, fault) ==
    IF fault = "list" THEN {Err("list_objects")}
    ELSE IF ~BucketListed(remote, body) THEN {Ok(EmptyManifest)}
    ELSE IF fault = "get" \/ ~body.some THEN {Err("get_object")}
    ELSE IF fault = "collect" THEN {Err("collect")}
    ELSE from_reader(body.val)

\* AwsS3::get_manifest on a bucket whose manifest.json object is body: the
\* Results it can return. A bucket without any object and a get_object that
\* answers NoSuchKey give the default manifest; every other failure is
\* returned.
get_manifest(remote, body, fault) ==
    IF fault = "list" THEN {Err("list_objects")}
    ELSE IF ~BucketListed(remote, body) THEN {Ok(EmptyManifest)}
    ELSE IF fault = "get" THEN {Err("get_object")}
    ELSE IF ~body.some THEN {Ok(EmptyManifest)}
    ELSE IF fault = "collect" THEN {Err("collect")}
    ELSE from_reader(body.val)

\* export_files that skips whenever the manifest has the key.
export_file_bypresence(dryrun, manifest, key, bytes, putok) ==
    LET current_digest == fs_digest(bytes)
    IN IF Manifest_lookup(manifest, key).some
       THEN {[manifest |-> manifest, skipped |-> TRUE, exported |-> FALSE,
              put |-> FALSE, abort |-> FALSE]}
       ELSE {[manifest |-> m, skipped |-> FALSE, exported |-> dryrun \/ putok,
              put |-> ~dryrun /\ putok, abort |-> ~dryrun /\ ~putok]
               : m \in Manifest_insert(manifest, key, current_digest)}

\* export_files that does not report the files of a dry run.
export_file_dryquiet(dryrun, manifest, key, bytes, putok) ==
    LET current_digest == fs_digest(bytes)
    IN IF Manifest_lookup(manifest, key) = Some(current_digest)
       THEN {[manifest |-> manifest, skipped |-> TRUE, exported |-> FALSE,
              put |-> FALSE, abort |-> FALSE]}
       ELSE {[manifest |-> m, skipped |-> FALSE, exported |-> ~dryrun /\ putok,
              put |-> ~dryrun /\ putok, abort |-> ~dryrun /\ ~putok]
               : m \in Manifest_insert(manifest, key, current_digest)}

\* export_files that uploads in a dry run too.
export_file_dryput(dryrun, manifest, key, bytes, putok) ==
    LET current_digest == fs_digest(bytes)
    IN IF Manifest_lookup(manifest, key) = Some(current_digest)
       THEN {[manifest |-> manifest, skipped |-> TRUE, exported |-> FALSE,
              put |-> FALSE, abort |-> FALSE]}
       ELSE {[manifest |-> m, skipped |-> FALSE, exported |-> putok,
              put |-> putok, abort |-> ~putok]
               : m \in Manifest_insert(manifest, key, current_digest)}

\* export_files that goes on to the next file when a put fails.
export_file_noabort(dryrun, manifest, key, bytes, putok) ==
    LET current_digest == fs_digest(bytes)
    IN IF Manifest_lookup(manifest, key) = Some(current_digest)
       THEN {[manifest |-> manifest, skipped |-> TRUE, exported |-> FALSE,
              put |-> FALSE, abort |-> FALSE]}
       ELSE {[manifest |-> m, skipped |-> FALSE, exported |-> dryrun \/ putok,
              put |-> ~dryrun /\ putok, abort |-> FALSE]
               : m \in Manifest_insert(manifest, key, current_digest)}

\* The body of the inner loop of export_files for one file whose bytes were
\* read: the possible outcomes, given whether ByteStream::from_path and
\* put_object succeed (putok). The key is pushed to exported only after the
\* put; a failed put returns the error with the entry already inserted.
export_file(dryrun, manifest, key, bytes, putok) ==
    LET current_digest == fs_digest(bytes)
    IN IF Manifest_lookup(manifest, key) = Some(current_digest)
       THEN {[manifest |-> manifest, skipped |-> TRUE, exported |-> FALSE,
              put |-> FALSE, abort |-> FALSE]}
       ELSE {[manifest |-> m, skipped |-> FALSE, exported |-> dryrun \/ putok,
              put |-> ~dryrun /\ putok, abort |-> ~dryrun /\ ~putok]
               : m \in Manifest_insert(manifest, key, current_digest)}

\* upload_manifest that puts the manifest of every run that is not a dry run.
upload_manifest_always(dryrun, old, new) ==
    IF dryrun THEN "skip" ELSE "put"

\* upload_manifest: "skip" when the digests of the two texts agree or the
\* run is a dry run, otherwise "put".
upload_manifest(dryrun, old, new) ==
    IF fs_digest(to_string_pretty(old)) = fs_digest(to_string_pretty(new)) THEN "skip"
    ELSE IF dryrun THEN "skip"
    ELSE "put"

\* export() returns an error: its locals (the manifests, the two Vecs) are
\* dropped with it.
Dropped ==
    /\ e_old' = EmptyManifest
    /\ e_new' = EmptyManifest
    /\ e_todo' = <<>>
    /\ e_exported' = <<>>
    /\ e_skipped' = <<>>

Running == e_pc \in {"fetch", "files", "manifest"}

NoRun == [valid |-> FALSE]

\* What a finished run leaves for the comparison with the next one.
Summary ==
    IF e_pc = "failed" THEN [valid |-> TRUE, ok |-> FALSE, puts |-> e_uploaded # <<>>]
    ELSE IF e_pc = "done"
    THEN [valid |-> TRUE, ok |-> TRUE, dryrun |-> e_dryrun,
          fetched |-> e_old.files, local |-> e_local,
          exported |-> {e_exported[i] : i \in 1..Len(e_exported)},
          skipped |-> {e_skipped[i] : i \in 1..Len(e_skipped)},
          serialized |-> to_string_pretty(e_new)]
    ELSE NoRun

\* The bucket after a successful export of the given files.
Exported(keys, local) ==
    {[remote |-> [k \in AllKeys |-> IF k \in keys THEN Some(local[k]) ELSE None],
      manifest |-> Some(to_string_pretty([files |-> [k \in keys |-> fs_digest(local[k])],
                                          order |-> o]))] : o \in Orders(keys)}

EmptyBucket == [remote |-> [k \in AllKeys |-> None], manifest |-> None]

\* A bucket whose manifest.json is not a manifest.
CorruptBucket == [remote |-> [k \in AllKeys |-> None], manifest |-> Some(CorruptBody)]

\* The journal that may have been edited since the bucket was written.
EditedKey == ObjectKey("w1", "a")

\* The local journals, and a bucket that is empty, holds a damaged manifest,
\* or holds an earlier export of the journals, one of which may have been
\* edited since.
InitExport ==
    /\ e_filter \in Filters
    /\ e_local \in {l \in [AllKeys -> FileContents] :
                        \A k \in AllKeys \ {EditedKey} : l[k] = <<1>>}
    /\ \E b \in {EmptyBucket, CorruptBucket} \cup
                 (IF KeysOf(filter_workspaces(e_filter, LocalWorkspaces)) = {} THEN {}
                  ELSE Exported(KeysOf(filter_workspaces(e_filter, LocalWorkspaces)),
                                [k \in AllKeys |-> <<1>>])) :
          /\ e_remote = b.remote
          /\ e_rmanifest = b.manifest
    /\ e_pc = "idle"
    /\ e_dryrun = FALSE
    /\ e_old = EmptyManifest
    /\ e_new = EmptyManifest
    /\ e_todo = <<>>
    /\ e_exported = <<>>
    /\ e_skipped = <<>>
    /\ e_uploaded = <<>>
    /\ e_mputs = 0
    /\ e_prev = NoRun
    /\ e_fetch = NoCall
    /\ e_runs = 0
    /\ e_edits = 0
    /\ CryptoRest
    /\ JournalRest
    /\ BulkRest
    /\ EditRest
    /\ RaceRest

\* AwsS3::export up to the first request: filter the workspaces.
StartExport ==
    /\ e_pc = "idle"
    /\ e_runs < MaxRuns
    /\ \E dryrun \in BOOLEAN :
          /\ e_dryrun' = dryrun
          /\ e_runs' = e_runs + 1
          /\ e_pc' = IF filter_workspaces(e_filter, LocalWorkspaces) = {}
                     THEN "done" ELSE "fetch"
    /\ UNCHANGED <<e_filter, e_local, e_remote, e_rmanifest, e_old, e_new, e_todo,
                   e_exported, e_skipped, e_uploaded, e_mputs, e_prev, e_fetch, e_edits,
                   cryptoVars, journalVars, bulkVars,
                   editVars, raceVars>>

\* export() has returned, Ok(output) or the error, and the process ends.
ReturnExport ==
    /\ e_pc \in {"done", "failed"}
    /\ e_prev' = Summary
    /\ e_pc' = "idle"
    /\ Dropped
    /\ e_uploaded' = <<>>
    /\ e_mputs' = 0
    /\ e_dryrun' = FALSE
    /\ e_fetch' = NoCall
    /\ UNCHANGED <<e_filter, e_local, e_remote, e_rmanifest, e_runs, e_edits,
                   cryptoVars, journalVars, bulkVars,
                   editVars, raceVars>>

\* get_manifest with every request answered, the clone, and the choice of
\* the workspace iteration order.
FetchManifest ==
    /\ e_pc = "fetch"
    /\ \E wsorder \in Orders(filter_workspaces(e_filter, LocalWorkspaces)) :
          \E r \in get_manifest(e_remote, e_rmanifest, "none") :
             /\ r.kind = "ok"
             /\ e_fetch' = [kind |-> "fetched", fault |-> "none", body |-> e_rmanifest,
                           listed |-> BucketListed(e_remote, e_rmanifest), res |-> r]
             /\ e_old' = r.val
             /\ e_new' = Manifest_clone(r.val)
             /\ e_todo' = Flatten(wsorder)
             /\ e_pc' = IF Flatten(wsorder) = <<>> THEN "manifest" ELSE "files"
    /\ UNCHANGED <<e_filter, e_local, e_remote, e_rmanifest, e_dryrun, e_exported,
                   e_skipped, e_uploaded, e_mputs, e_prev, e_runs, e_edits,
                   cryptoVars, journalVars, bulkVars,
                   editVars, raceVars>>

\* get_manifest returns an error and export() returns it.
FetchManifestFails ==
    /\ e_pc = "fetch"
    /\ \E fault \in FetchFaults :
          \E r \in get_manifest(e_remote, e_rmanifest, fault) :
             /\ r.kind = "err"
             /\ e_fetch' = [kind |-> "fetched", fault |-> fault, body |-> e_rmanifest,
                           listed |-> BucketListed(e_remote, e_rmanifest), res |-> r]
    /\ e_pc' = "failed"
    /\ Dropped
    /\ UNCHANGED <<e_filter, e_local, e_remote, e_rmanifest, e_dryrun, e_uploaded,
                   e_mputs, e_prev, e_runs, e_edits, cryptoVars, journalVars, bulkVars,
                   editVars, raceVars>>

\* One pass of the inner loop of export_files.
ExportFile ==
    /\ e_pc = "files"
    /\ e_todo # <<>>
    /\ LET key == ObjectKey(e_todo[1][1], e_todo[1][2])
           bytes == e_local[key]
       IN \E putok \in BOOLEAN :
            \E r \in export_file(e_dryrun, e_new, key, bytes, putok) :
               /\ e_remote' = IF r.put THEN [e_remote EXCEPT ![key] = Some(bytes)]
                              ELSE e_remote
               /\ IF r.abort
                  THEN /\ e_pc' = "failed"
                       /\ Dropped
                       /\ e_uploaded' = e_uploaded
                  ELSE /\ e_pc' = IF Tail(e_todo) = <<>> THEN "manifest" ELSE "files"
                       /\ e_old' = e_old
                       /\ e_new' = r.manifest
                       /\ e_skipped' =
                             IF r.skipped THEN Append(e_skipped, key) ELSE e_skipped
                       /\ e_exported' =
                             IF r.exported THEN Append(e_exported, key) ELSE e_exported
                       /\ e_uploaded' =
                             IF r.put THEN Append(e_uploaded, key) ELSE e_uploaded
                       /\ e_todo' = Tail(e_todo)
    /\ UNCHANGED <<e_filter, e_local, e_rmanifest, e_dryrun, e_mputs, e_prev, e_fetch,
                   e_runs, e_edits, cryptoVars, journalVars, bulkVars,
                   editVars, raceVars>>

\* file_entry.read_bytes() fails: export_files returns the error.
ReadFileFails ==
    /\ e_pc = "files"
    /\ e_todo # <<>>
    /\ e_pc' = "failed"
    /\ Dropped
    /\ UNCHANGED <<e_filter, e_local, e_remote, e_rmanifest, e_dryrun, e_uploaded,
                   e_mputs, e_prev, e_fetch, e_runs, e_edits, cryptoVars, journalVars, bulkVars,
                   editVars, raceVars>>

\* AwsS3::upload_manifest
UploadManifest ==
    /\ e_pc = "manifest"
    /\ \E putok \in BOOLEAN :
          LET what == upload_manifest(e_dryrun, e_old, e_new)
          IN /\ e_rmanifest' = IF what = "put" /\ putok
                               THEN Some(to_string_pretty(e_new)) ELSE e_rmanifest
             /\ e_mputs' = IF what = "put" /\ putok THEN e_mputs + 1 ELSE e_mputs
             /\ IF what = "put" /\ ~putok
                THEN /\ e_pc' = "failed"
                     /\ Dropped
                ELSE /\ e_pc' = "done"
                     /\ UNCHANGED <<e_old, e_new, e_todo, e_exported, e_skipped, raceVars>>
    /\ UNCHANGED <<e_filter, e_local, e_remote, e_dryrun, e_uploaded, e_prev, e_fetch,
                   e_runs, e_edits, cryptoVars, journalVars, bulkVars,
                   editVars, raceVars>>

\* The process is killed while export() runs: nothing more is requested.
KillExport ==
    /\ Running
    /\ e_pc' = "failed"
    /\ Dropped
    /\ UNCHANGED <<e_filter, e_local, e_remote, e_rmanifest, e_dryrun, e_uploaded,
                   e_mputs, e_prev, e_fetch, e_runs, e_edits, cryptoVars, journalVars, bulkVars,
                   editVars, raceVars>>

\* The user changes a journal between two export runs.
EditLocal ==
    /\ e_pc = "idle"
    /\ e_edits < MaxEdits
    /\ \E key \in AllKeys, content \in FileContents :
          /\ content # e_local[key]
          /\ e_local' = [e_local EXCEPT ![key] = content]
    /\ e_edits' = e_edits + 1
    /\ UNCHANGED <<e_filter, e_remote, e_rmanifest, e_pc, e_dryrun, e_old, e_new, e_todo,
                   e_exported, e_skipped, e_uploaded, e_mputs, e_prev, e_fetch, e_runs,
                   cryptoVars, journalVars, bulkVars,
                   editVars, raceVars>>

NextExport ==
    \/ StartExport
    \/ ReturnExport
    \/ FetchManifest
    \/ FetchManifestFails
    \/ ExportFile
    \/ ReadFileFails
    \/ UploadManifest
    \/ KillExport
    \/ EditLocal

SpecExport == InitExport /\ [][NextExport]_vars

(***************************************************************************)
(* export/zip.rs and handler.rs: the operations over every stored journal. *)
(***************************************************************************)
\* The key the stored encrypted journal was written with, and another one.
StoredKey == Repeat(97, MIN_KEY_LEN)
OtherKey == Repeat(98, KEY_LEN)
BulkKeys == {None, Some(StoredKey), Some(OtherKey)}

\* What a stored journal may hold: a text, bytes that are not UTF-8, a
\* legacy file, an encrypted journal, and two damaged version-1 headers.
TextFile == Header_encode(new_non_encrypted) \o <<1>>
BinaryFile == Header_encode(new_non_encrypted) \o <<255>>
LegacyFile == <<2, 1>>
EncryptedFile == Journal_write(Some(StoredKey), <<1>>, Ok(Repeat(9, NONCE_LEN))).bytes
MalformedFile == <<1, 128>>
TruncatedFile == <<1, 128, 0, 1>>
StoredFiles ==
    {TextFile, BinaryFile, LegacyFile, EncryptedFile, MalformedFile, TruncatedFile}

\* String::from_utf8 on the bytes of the model: every byte below 0x80 is a
\* character; 0x80 and 0xFF do not start one.
from_utf8(bytes) ==
    IF \A i \in 1..Len(bytes) : bytes[i] < 128 THEN Ok(bytes) ELSE Err("FromUtf8Error")

\* The body of the inner loop of zip::export for one file: start_file, then
\* Journal::open and Journal::bytes, then write_all. zipok tells whether the
\* writes to the archive succeed.
zip_file(name, contents, key, io, zipok) ==
    IF ~zipok
    THEN [entry |-> None, exported |-> FALSE, skipped |-> FALSE, what |-> "zip",
          end |-> Err("ZipError")]
    ELSE LET j == Journal_open(contents, key, io)
         IN IF j = Panic
            THEN [entry |-> Some(<<>>), exported |-> FALSE, skipped |-> FALSE,
                  what |-> "open", end |-> Panic]
            ELSE IF j.kind = "err"
            THEN [entry |-> Some(<<>>), exported |-> FALSE, skipped |-> TRUE,
                  what |-> "open", end |-> NoCall]
            ELSE LET b == Journal_bytes(j.val).res
                 IN IF b.kind = "ok"
                    THEN [entry |-> Some(b.val), exported |-> TRUE, skipped |-> FALSE,
                          what |-> "ok", end |-> NoCall]
                    ELSE [entry |-> Some(<<>>), exported |-> FALSE, skipped |-> TRUE,
                          what |-> "bytes", end |-> NoCall]

\* The value zip::export returns after zip.finish().
zip_output(exported, skipped) == Ok([exported |-> exported, skipped |-> <<>>])

\* The body of the inner loop of handle_search for one file.
search_file(contents, key, io) ==
    LET j == Journal_open(contents, key, io)
    IN IF j = Panic THEN [what |-> "open", end |-> Panic]
       ELSE IF j.kind = "err" THEN [what |-> "open", end |-> j]
       ELSE LET b == Journal_bytes(j.val).res
            IN IF b.kind # "ok" THEN [what |-> "bytes", end |-> NoCall]
               ELSE IF from_utf8(b.val).kind # "ok" THEN [what |-> "text", end |-> NoCall]
               ELSE [what |-> "ok", end |-> NoCall]

InitBulk ==
    /\ b_files \in [AllKeys -> StoredFiles]
    /\ b_key \in BulkKeys
    /\ b_op = "none"
    /\ b_pc = "idle"
    /\ b_todo = <<>>
    /\ b_exported = <<>>
    /\ b_skipped = <<>>
    /\ b_archive = <<>>
    /\ b_log = <<>>
    /\ b_out = NoCall
    /\ CryptoRest
    /\ JournalRest
    /\ ExportRest
    /\ EditRest
    /\ RaceRest

\* zip::export up to the loops: the archive of the day exists and the user
\* declines to replace it, or the archive file is created.
StartZip ==
    /\ b_pc = "idle"
    /\ b_op = "none"
    /\ b_op' = "zip"
    /\ \E replace \in BOOLEAN, wsorder \in Orders(DOMAIN LocalWorkspaces) :
          IF replace
          THEN /\ b_pc' = "loop"
               /\ b_todo' = Flatten(wsorder)
               /\ b_out' = b_out
          ELSE /\ b_pc' = "done"
               /\ b_todo' = <<>>
               /\ b_out' = Ok([exported |-> <<>>, skipped |-> <<>>])
    /\ UNCHANGED <<b_files, b_key, b_exported, b_skipped, b_archive, b_log,
                   cryptoVars, journalVars, exportVars, editVars, raceVars>>

\* One pass of the inner loop of zip::export; add_directory comes first for
\* the first file of a workspace.
ZipFile ==
    /\ b_op = "zip"
    /\ b_pc = "loop"
    /\ b_todo # <<>>
    /\ LET ws == b_todo[1][1]
           name == ObjectKey(ws, b_todo[1][2])
           first == b_log = <<>> \/ b_log[Len(b_log)].ws # ws
           dir == IF first THEN <<[kind |-> "dir", name |-> ws, data |-> <<>>]>> ELSE <<>>
       IN \E io \in BOOLEAN, zipok \in BOOLEAN :
             LET r == zip_file(name, b_files[name], b_key, io, zipok)
             IN /\ b_archive' =
                      IF r.entry.some
                      THEN b_archive \o dir \o
                           <<[kind |-> "file", name |-> name, data |-> r.entry.val]>>
                      ELSE b_archive
                /\ b_exported' = IF r.exported THEN Append(b_exported, name) ELSE b_exported
                /\ b_skipped' = IF r.skipped THEN Append(b_skipped, name) ELSE b_skipped
                /\ b_log' = Append(b_log, [ws |-> ws, name |-> name, what |-> r.what])
                /\ IF r.end # NoCall
                   THEN /\ b_pc' = "failed"
                        /\ b_out' = r.end
                        /\ b_todo' = b_todo
                   ELSE /\ b_pc' = "loop"
                        /\ b_out' = b_out
                        /\ b_todo' = Tail(b_todo)
    /\ UNCHANGED <<b_files, b_key, b_op, cryptoVars, journalVars, exportVars, editVars, raceVars>>

\* zip.finish() and the value zip::export returns.
FinishZip ==
    /\ b_op = "zip"
    /\ b_pc = "loop"
    /\ b_todo = <<>>
    /\ \E zipok \in BOOLEAN :
          IF zipok
          THEN /\ b_pc' = "done"
               /\ b_out' = zip_output(b_exported, b_skipped)
          ELSE /\ b_pc' = "failed"
               /\ b_out' = Err("ZipError")
    /\ UNCHANGED <<b_files, b_key, b_op, b_todo, b_exported, b_skipped, b_archive, b_log,
                   cryptoVars, journalVars, exportVars, editVars, raceVars>>

\* handle_search up to the loops.
StartSearch ==
    /\ b_pc = "idle"
    /\ b_op = "none"
    /\ b_op' = "search"
    /\ b_pc' = "loop"
    /\ \E wsorder \in Orders(DOMAIN LocalWorkspaces) : b_todo' = Flatten(wsorder)
    /\ UNCHANGED <<b_files, b_key, b_exported, b_skipped, b_archive, b_log, b_out,
                   cryptoVars, journalVars, exportVars, editVars, raceVars>>

\* One pass of the inner loop of handle_search.
SearchFile ==
    /\ b_op = "search"
    /\ b_pc = "loop"
    /\ b_todo # <<>>
    /\ LET ws == b_todo[1][1]
           name == ObjectKey(ws, b_todo[1][2])
       IN \E io \in BOOLEAN :
             LET r == search_file(b_files[name], b_key, io)
             IN /\ b_log' = Append(b_log, [ws |-> ws, name |-> name, what |-> r.what])
                /\ IF r.end # NoCall
                   THEN /\ b_pc' = "failed"
                        /\ b_out' = r.end
                        /\ b_todo' = b_todo
                   ELSE /\ b_pc' = "loop"
                        /\ b_out' = b_out
                        /\ b_todo' = Tail(b_todo)
    /\ UNCHANGED <<b_files, b_key, b_op, b_exported, b_skipped, b_archive,
                   cryptoVars, journalVars, exportVars, editVars, raceVars>>

\* handle_search returns Ok(()).
FinishSearch ==
    /\ b_op = "search"
    /\ b_pc = "loop"
    /\ b_todo = <<>>
    /\ b_pc' = "done"
    /\ b_out' = Ok("unit")
    /\ UNCHANGED <<b_files, b_key, b_op, b_todo, b_exported, b_skipped, b_archive, b_log,
                   cryptoVars, journalVars, exportVars, editVars, raceVars>>

NextBulk ==
    \/ StartZip
    \/ ZipFile
    \/ FinishZip
    \/ StartSearch
    \/ SearchFile
    \/ FinishSearch

SpecBulk == InitBulk /\ [][NextBulk]_vars

(***************************************************************************)
(* fs/editor.rs and types.rs: Journal::create and Journal::edit.           *)
(***************************************************************************)
MaxOps == 2

\* The one step of a create / edit call that fails, if any: reading the
\* journal, the five steps of edit_temp, opening the backing file, drawing
\* the nonce, and the writes of the header and of the payload.
EditFaults ==
    {"none", "read_journal", "create_temp", "write_temp", "launch", "read_temp",
     "remove_temp", "open", "rng", "write_header", "write_payload"}

\* What the user does in the editor: None leaves the buffer as it is,
\* Some(text) saves text. The texts include the empty one and one that
\* reads as the start of an encrypted header.
EditorOuts == {None, Some(<<>>), Some(<<1>>), Some(<<255>>), Some(<<1, 128>>)}

EditKeys == {None, Some(StoredKey), Some(OtherKey), Some(Repeat(97, MIN_KEY_LEN - 1))}

\* The nonces SystemRandom::fill may produce.
Nonces == {Repeat(0, NONCE_LEN), Repeat(9, NONCE_LEN)}

\* Editor::edit_temp when temp_dir()/filename holds temp: the Result and
\* what the temporary file holds afterwards.
edit_temp(temp, content, out, fault) ==
    LET text == IF out.some THEN out.val ELSE content
    IN IF temp.some THEN [res |-> Err("AlreadyExists"), temp |-> temp]
       ELSE IF fault = "create_temp" THEN [res |-> Err("IoFailure"), temp |-> temp]
       ELSE IF fault = "write_temp" THEN [res |-> Err("IoFailure"), temp |-> Some(<<>>)]
       ELSE IF fault = "launch" THEN [res |-> Err("EditorFailed"), temp |-> Some(content)]
       ELSE IF fault = "read_temp" THEN [res |-> Err("IoFailure"), temp |-> Some(text)]
       ELSE IF fault = "remove_temp" THEN [res |-> Err("IoFailure"), temp |-> Some(text)]
       ELSE [res |-> Ok(text), temp |-> None]

\* Journal::write into a file just opened: the Result and the bytes that
\* reached the file.
write_file(key, content, nonce, fault) ==
    LET w == Journal_write(key, content,
                           IF fault = "rng" THEN Err("Unspecified") ELSE Ok(nonce))
    IN IF w.res.kind # "ok" THEN [res |-> w.res, bytes |-> <<>>]
       ELSE IF fault = "write_header" THEN [res |-> Err("IoFailure"), bytes |-> <<>>]
       ELSE IF fault = "write_payload"
       THEN [res |-> Err("IoFailure"),
             bytes |-> SubSeq(w.bytes, 1, Len(w.bytes) - Len(content))]
       ELSE w

\* Journal::edit on the journal j opened from file.
Journal_edit(j, file, temp, out, nonce, fault) ==
    LET b == Journal_bytes(j).res
    IN IF b.kind # "ok" THEN [res |-> b, file |-> file, temp |-> temp]
       ELSE LET t == edit_temp(temp, b.val, out, fault)
            IN IF t.res.kind # "ok" THEN [res |-> t.res, file |-> file, temp |-> t.temp]
               ELSE IF fault = "open" \/ ~file.some
               THEN [res |-> Err("IoFailure"), file |-> file, temp |-> t.temp]
               ELSE LET w == write_file(j.key, t.res.val, nonce, fault)
                    IN [res |-> w.res, file |-> Some(w.bytes), temp |-> t.temp]

\* Journal::create
Journal_create(key, content, file, temp, out, nonce, fault) ==
    LET t == edit_temp(temp, content, out, fault)
    IN IF t.res.kind # "ok" THEN [res |-> t.res, file |-> file, temp |-> t.temp]
       ELSE IF file.some
       THEN [res |-> Err("AlreadyExists"), file |-> file, temp |-> t.temp]
       ELSE IF fault = "open"
       THEN [res |-> Err("IoFailure"), file |-> file, temp |-> t.temp]
       ELSE LET w == write_file(key, t.res.val, nonce, fault)
            IN [res |-> w.res, file |-> Some(w.bytes), temp |-> t.temp]

\* template::create: the initial content of a new journal.
Template == <<1>>

\* The journals an edit may find: none, a text, a text whose header has a
\* low flag bit set, a legacy file, an encrypted journal.
FlaggedFile == <<1, 1, 1>>
EditFiles == {TextFile, FlaggedFile, LegacyFile, EncryptedFile}

InitEdit ==
    /\ d_file \in {None} \cup {Some(f) : f \in EditFiles}
    /\ d_temp = None
    /\ d_before = None
    /\ d_res = NoCall
    /\ d_in = NoCall
    /\ d_ops = 0
    /\ CryptoRest
    /\ JournalRest
    /\ ExportRest
    /\ BulkRest
    /\ RaceRest

\* handle_open without print: Journal::open, then journal.edit().
HandleOpen ==
    /\ d_ops < MaxOps
    /\ d_res = NoCall
    /\ \E key \in EditKeys, out \in EditorOuts, nonce \in Nonces, fault \in EditFaults :
          LET j == IF d_file.some
                   THEN Journal_open(d_file.val, key, fault # "read_journal")
                   ELSE Err("NotFound")
              r == IF j.kind = "ok"
                   THEN Journal_edit(j.val, d_file, d_temp, out, nonce, fault)
                   ELSE [res |-> j, file |-> d_file, temp |-> d_temp]
          IN /\ d_in' = [kind |-> "edit", key |-> key, out |-> out, nonce |-> nonce,
                         fault |-> fault, temp |-> d_temp, journal |-> j]
             /\ d_res' = r.res
             /\ d_file' = r.file
             /\ d_temp' = r.temp
    /\ d_before' = d_file
    /\ d_ops' = d_ops + 1
    /\ UNCHANGED <<cryptoVars, journalVars, exportVars, bulkVars, raceVars>>

\* handle_create: refuse an existing path, then Journal::create.
HandleCreate ==
    /\ d_ops < MaxOps
    /\ d_res = NoCall
    /\ \E key \in EditKeys, out \in EditorOuts, nonce \in Nonces, fault \in EditFaults :
          LET r == IF d_file.some
                   THEN [res |-> Err("AlreadyExists"), file |-> d_file, temp |-> d_temp]
                   ELSE Journal_create(key, Template, d_file, d_temp, out, nonce, fault)
          IN /\ d_in' = [kind |-> "create", key |-> key, out |-> out, nonce |-> nonce,
                         fault |-> fault, temp |-> d_temp, journal |-> NoCall]
             /\ d_res' = r.res
             /\ d_file' = r.file
             /\ d_temp' = r.temp
    /\ d_before' = d_file
    /\ d_ops' = d_ops + 1
    /\ UNCHANGED <<cryptoVars, journalVars, exportVars, bulkVars, raceVars>>

\* The command has returned and the process ends.
ReturnEdit ==
    /\ d_res # NoCall
    /\ d_res' = NoCall
    /\ d_in' = NoCall
    /\ d_before' = None
    /\ UNCHANGED <<d_file, d_temp, d_ops, cryptoVars, journalVars, exportVars, bulkVars, raceVars>>

NextEdit ==
    \/ HandleOpen
    \/ HandleCreate
    \/ ReturnEdit

SpecEdit == InitEdit /\ [][NextEdit]_vars

(***************************************************************************)
(* types.rs, fs/editor.rs, handler.rs: two `jn open` processes on the same *)
(* journal path. Each process has its own file descriptor and offset; the  *)
(* file and the temporary file of edit_temp are shared.                    *)
(***************************************************************************)
Procs == {"p1", "p2"}

RaceKeys == {None, Some(StoredKey)}

\* What a user does in the editor of one process.
RaceTexts == {None, Some(<<3>>), Some(<<4, 4, 4>>)}

\* write(2) on a descriptor without O_APPEND: the bytes land at the
\* descriptor's offset, a gap beyond the end of the file reads as zeros,
\* and the bytes of the file after the written range stay.
WriteAt(file, pos, bytes) ==
    LET gap == IF pos > Len(file) THEN Repeat(0, pos - Len(file)) ELSE <<>>
        head == IF pos > Len(file) THEN file ELSE SubSeq(file, 1, pos)
        rest == SubSeq(file, pos + Len(bytes) + 1, Len(file))
    IN head \o gap \o bytes \o rest

\* The header Journal::write encodes and the payload that follows it.
write_plan(key, content, nonce) ==
    LET w == Journal_write(key, content, Ok(nonce))
        n == Len(w.bytes) - Len(content)
    IN [header |-> SubSeq(w.bytes, 1, n), payload |-> SubSeq(w.bytes, n + 1, Len(w.bytes))]

InitRace ==
    /\ r_file \in {TextFile, EncryptedFile}
    /\ r_temp = None
    /\ r_pc = [p \in Procs |-> "start"]
    /\ r_key \in [Procs -> RaceKeys]
    /\ r_buf = [p \in Procs |-> <<>>]
    /\ r_pos = [p \in Procs |-> 0]
    /\ r_plan = [p \in Procs |-> NoCall]
    /\ CryptoRest
    /\ JournalRest
    /\ ExportRest
    /\ BulkRest
    /\ EditRest

\* handle_open: Journal::open reads the file; edit() takes its bytes().
RaceOpen(p) ==
    /\ r_pc[p] = "start"
    /\ LET j == Journal_open(r_file, r_key[p], TRUE)
           b == IF j.kind = "ok" THEN Journal_bytes(j.val).res ELSE j
       IN IF b.kind = "ok"
          THEN /\ r_pc' = [r_pc EXCEPT ![p] = "loaded"]
               /\ r_buf' = [r_buf EXCEPT ![p] = b.val]
          ELSE /\ r_pc' = [r_pc EXCEPT ![p] = "failed"]
               /\ r_buf' = r_buf
    /\ UNCHANGED <<r_file, r_temp, r_key, r_pos, r_plan,
                   cryptoVars, journalVars, exportVars, bulkVars, editVars>>

\* edit_temp: create_new on temp_dir()/filename and write_all of the content.
RaceCreateTemp(p) ==
    /\ r_pc[p] = "loaded"
    /\ IF r_temp.some
       THEN /\ r_pc' = [r_pc EXCEPT ![p] = "failed"]
            /\ r_temp' = r_temp
       ELSE /\ r_pc' = [r_pc EXCEPT ![p] = "editing"]
            /\ r_temp' = Some(r_buf[p])
    /\ UNCHANGED <<r_file, r_key, r_buf, r_pos, r_plan,
                   cryptoVars, journalVars, exportVars, bulkVars, editVars>>

\* edit_temp: the editor runs, the file is read back and removed.
RaceEditTemp(p) ==
    /\ r_pc[p] = "editing"
    /\ \E out \in RaceTexts :
          r_buf' = [r_buf EXCEPT ![p] = IF out.some THEN out.val ELSE r_temp.val]
    /\ r_temp' = None
    /\ r_pc' = [r_pc EXCEPT ![p] = "edited"]
    /\ UNCHANGED <<r_file, r_key, r_pos, r_plan,
                   cryptoVars, journalVars, exportVars, bulkVars, editVars>>

\* Journal::edit: open with write and truncate; Journal::write then
\* encrypts the content and builds the header.
RaceTruncate(p) ==
    /\ r_pc[p] = "edited"
    /\ r_file' = <<>>
    /\ r_pos' = [r_pos EXCEPT ![p] = 0]
    /\ \E nonce \in Nonces :
          r_plan' = [r_plan EXCEPT ![p] = write_plan(r_key[p], r_buf[p], nonce)]
    /\ r_pc' = [r_pc EXCEPT ![p] = "opened"]
    /\ UNCHANGED <<r_temp, r_key, r_buf,
                   cryptoVars, journalVars, exportVars, bulkVars, editVars>>

\* header.encode(writer): one write_all of the header bytes.
RaceWriteHeader(p) ==
    /\ r_pc[p] = "opened"
    /\ r_file' = WriteAt(r_file, r_pos[p], r_plan[p].header)
    /\ r_pos' = [r_pos EXCEPT ![p] = r_pos[p] + Len(r_plan[p].header)]
    /\ r_pc' = [r_pc EXCEPT ![p] = "header"]
    /\ UNCHANGED <<r_temp, r_key, r_buf, r_plan,
                   cryptoVars, journalVars, exportVars, bulkVars, editVars>>

\* writer.write_all of the content or the ciphertext; the file is closed.
RaceWritePayload(p) ==
    /\ r_pc[p] = "header"
    /\ r_file' = WriteAt(r_file, r_pos[p], r_plan[p].payload)
    /\ r_pos' = [r_pos EXCEPT ![p] = r_pos[p] + Len(r_plan[p].payload)]
    /\ r_pc' = [r_pc EXCEPT ![p] = "done"]
    /\ UNCHANGED <<r_temp, r_key, r_buf, r_plan,
                   cryptoVars, journalVars, exportVars, bulkVars, editVars>>

NextRace ==
    \/ \E p \in Procs : RaceOpen(p)
    \/ \E p \in Procs : RaceCreateTemp(p)
    \/ \E p \in Procs : RaceEditTemp(p)
    \/ \E p \in Procs : RaceTruncate(p)
    \/ \E p \in Procs : RaceWriteHeader(p)
    \/ \E p \in Procs : RaceWritePayload(p)

SpecRace == InitRace /\ [][NextRace]_vars

ValidKeyLen(k) == Len(k) >= 8 /\ Len(k) <= 32

\* C1: whenever encrypt(P, K) returned r and decrypt(K, r.nonce, r.tag,
\* r.ciphertext) has been called, that call succeeded and returned exactly P.
C1_RoundTrip ==
    (/\ c_enc # NoCall
     /\ c_enc.kind = "ok"
     /\ c_dec # NoCall
     /\ c_callkey = c_key
     /\ c_decin = [nonce |-> c_enc.val.nonce, tag |-> c_enc.val.tag,
                   data |-> c_enc.val.ciphertext])
    => (c_dec.kind = "ok" /\ c_dec.val = c_data)

\* A key shorter than 32 bytes, a non-empty plaintext, encrypted and decrypted.
C1_Witness ==
    /\ ValidKeyLen(c_key)
    /\ Len(c_key) < 32
    /\ Len(c_data) = MaxPlainLen
    /\ c_enc # NoCall
    /\ c_enc.kind = "ok"
    /\ c_enc.val.ciphertext # c_data
    /\ c_dec = Ok(c_data)

\* C2: with a key shorter than 8 or longer than 32 bytes every encrypt and
\* decrypt call returned KeyInvalid, and no nonce was drawn and no cipher
\* operation made; with a key of 8..32 bytes the key the calls used is 32
\* bytes long: the key bytes followed by zero bytes.
C2_KeyCheck ==
    /\ ~ValidKeyLen(c_key) =>
          /\ c_enc # NoCall => c_enc = Err("KeyInvalid")
          /\ c_dec # NoCall => c_dec = Err("KeyInvalid")
          /\ c_rng = 0
          /\ c_ops = 0
    /\ (ValidKeyLen(c_callkey) /\ c_norm # NoCall) =>
          /\ c_norm.kind = "ok"
          /\ Len(c_norm.val) = 32
          /\ \A i \in 1..32 :
                c_norm.val[i] = IF i <= Len(c_callkey) THEN c_callkey[i] ELSE 0

\* encrypt and decrypt both called with a 7-byte key.
C2_Witness ==
    /\ Len(c_key) = 7
    /\ c_enc = Err("KeyInvalid")
    /\ c_dec = Err("KeyInvalid")
    /\ c_norm = Err("KeyInvalid")
    /\ c_rng = 0

\* A buffer that starts with a well-formed version-1 header: the flags byte
\* is present and, when its encrypted bit is set, so are the two length
\* bytes and as many nonce and tag bytes as they declare.
WellFormedV1(b) ==
    /\ Len(b) >= 2
    /\ b[1] = 1
    /\ b[2] >= 128 => (Len(b) >= 4 /\ Len(b) >= 4 + b[3] + b[4])

\* C3: on a buffer that starts with a well-formed version-1 header, whatever
\* its flags byte, Header::decode succeeds and Header::encode of the decoded
\* header emits exactly the first header.size bytes of the buffer.
C3_HeaderRoundTrip ==
    (WellFormedV1(j_file) /\ j_open # NoCall /\ j_open # Err("IoFailure")) =>
        /\ j_open.kind = "ok"
        /\ j_enc # NoCall =>
              j_enc = Ok(SubSeq(j_file, 1, j_open.val.header.size))

\* A version-1 buffer with the encrypted bit set that is shorter than its
\* header declares, or that lacks the length bytes.
TruncatedV1(b) ==
    /\ Len(b) >= 2
    /\ b[1] = 1
    /\ b[2] >= 128
    /\ (Len(b) < 4 \/ Len(b) < 4 + b[3] + b[4])

\* C4: Header::decode on a truncated encrypted version-1 header returns the
\* error MalformedHeader: it neither panics nor returns a header.
C4_TruncatedRejected ==
    (TruncatedV1(j_file) /\ j_open # NoCall /\ j_open # Err("IoFailure")) =>
        j_open = Err("MalformedHeader")

LegacyBuffer(b) == Len(b) = 0 \/ b[1] # 1

\* C5: on an empty buffer, or one whose first byte is not 0x01, Header::decode
\* returns the legacy header (size 0, not encrypted, empty nonce and tag) and
\* Journal::bytes returns the whole file, with or without a key.
C5_Legacy ==
    (LegacyBuffer(j_file) /\ j_open # NoCall /\ j_open # Err("IoFailure")) =>
        /\ j_open.kind = "ok"
        /\ j_open.val.header.size = 0
        /\ ~j_open.val.header.encrypted
        /\ j_open.val.header.nonce = <<>>
        /\ j_open.val.header.tag = <<>>
        /\ j_bytes # NoCall => (j_bytes = Ok(j_file) /\ j_calls = 0)

\* A legacy file whose second byte has the encrypted bit set, opened with a
\* key and read.
C5_Witness ==
    /\ Len(j_file) >= 2
    /\ j_file[1] = 2
    /\ j_file[2] = 128
    /\ j_key.some
    /\ j_open # NoCall
    /\ j_open.kind = "ok"
    /\ j_bytes = Ok(j_file)

\* C6: Journal::bytes on an opened journal: an encrypted header and no key
\* gives MissingKey without a decrypt call; an encrypted header and a key
\* gives decrypt(key, header.nonce, header.tag, contents[header.size..]); a
\* header that is not encrypted gives contents[header.size..], key or not.
C6_Bytes ==
    (j_open # NoCall /\ j_open.kind = "ok" /\ j_bytes # NoCall) =>
        LET h == j_open.val.header
            rest == SubSeq(j_file, h.size + 1, Len(j_file))
        IN /\ (h.encrypted /\ ~j_key.some) =>
                 (j_bytes = Err("MissingKey") /\ j_calls = 0)
           /\ (h.encrypted /\ j_key.some) =>
                 /\ j_bytes = decrypt(j_key.val, h.nonce, h.tag, rest).res
                 /\ j_calls = 1
           /\ ~h.encrypted => (j_bytes = Ok(rest) /\ j_calls = 0)

\* An encrypted journal opened with its key and read back.
C6_Witness ==
    /\ j_open # NoCall
    /\ j_open.kind = "ok"
    /\ j_bytes # NoCall
    /\ j_open.val.header.encrypted
    /\ Len(j_open.val.header.nonce) = 12
    /\ j_key.some
    /\ j_bytes.kind = "ok"
    /\ Len(j_bytes.val) = MaxPlainLen
    /\ j_calls = 1

SetOf(seq) == {seq[i] : i \in 1..Len(seq)}

\* C7: in a run, a file whose key the fetched manifest maps to the file's
\* current digest is in skipped, is not uploaded and keeps its manifest
\* entry; any other file the run has handled is in exported and the
\* in-memory manifest maps its key to the current digest. Once the loops are
\* over every considered file is in one of the two lists.
C7_Decision ==
    /\ e_pc \in {"files", "manifest", "done"} =>
          \A key \in SetOf(e_exported) \cup SetOf(e_skipped) :
             LET d == fs_digest(e_local[key])
             IN IF key \in DOMAIN e_old.files /\ e_old.files[key] = d
                THEN /\ key \in SetOf(e_skipped)
                     /\ key \notin SetOf(e_exported)
                     /\ key \notin SetOf(e_uploaded)
                     /\ e_new.files[key] = e_old.files[key]
                ELSE /\ key \in SetOf(e_exported)
                     /\ key \notin SetOf(e_skipped)
                     /\ key \in DOMAIN e_new.files
                     /\ e_new.files[key] = d
    /\ e_pc \in {"manifest", "done"} =>
          SetOf(e_exported) \cup SetOf(e_skipped) = ConsideredKeys

\* A finished run that skipped w1/a, whose digest the manifest held, and
\* exported w1/b, for which the manifest held another digest.
C7_Witness ==
    /\ e_pc = "done"
    /\ ~e_dryrun
    /\ "w1/a" \in SetOf(e_skipped)
    /\ "w1/b" \in SetOf(e_exported)
    /\ "w1/b" \in DOMAIN e_old.files
    /\ e_old.files["w1/b"] = fs_digest(<<1>>)
    /\ e_new.files["w1/b"] = fs_digest(<<2>>)
    /\ e_remote["w1/b"] = Some(<<2>>)

\* C8: a run that follows a successful non-dry run, with no file changed in
\* between, reports every file in skipped and none in exported, uploads no
\* file object, produces the serialized manifest the first run produced and
\* persisted, and puts no manifest.
C8_SecondRun ==
    (/\ e_pc = "done"
     /\ e_prev.valid
     /\ e_prev.ok
     /\ ~e_prev.dryrun
     /\ e_prev.local = e_local)
    => /\ e_exported = <<>>
       /\ SetOf(e_skipped) = ConsideredKeys
       /\ e_uploaded = <<>>
       /\ e_mputs = 0
       /\ to_string_pretty(e_new) = e_prev.serialized

\* C9: a dry run and a successful non-dry run that fetched the same manifest
\* and saw the same local files return the same exported and skipped sets.
C9_DryRunSamePartition ==
    (/\ e_pc = "done"
     /\ e_prev.valid
     /\ e_prev.ok
     /\ e_prev.dryrun # e_dryrun
     /\ e_prev.fetched = e_old.files
     /\ e_prev.local = e_local)
    => /\ SetOf(e_exported) = e_prev.exported
       /\ SetOf(e_skipped) = e_prev.skipped

\* A dry run followed by a non-dry run on the same manifest and files, each
\* of which exported one file and skipped another.
C9_Witness ==
    /\ e_pc = "done"
    /\ e_prev.valid
    /\ e_prev.ok
    /\ e_prev.dryrun
    /\ ~e_dryrun
    /\ e_prev.fetched = e_old.files
    /\ e_prev.local = e_local
    /\ e_prev.exported # {}
    /\ e_prev.skipped # {}
    /\ e_uploaded # <<>>

\* C10: no step of a dry run changes the bucket: no file object and no
\* manifest is put.
C10_DryRunNoPut ==
    [][(Running /\ e_dryrun) =>
          /\ e_remote' = e_remote
          /\ e_rmanifest' = e_rmanifest
          /\ e_uploaded' = <<>>
          /\ e_mputs' = 0]_vars

\* A finished dry run that found a file to export and a manifest to change.
C10_Witness ==
    /\ e_pc = "done"
    /\ e_dryrun
    /\ e_exported # <<>>
    /\ to_string_pretty(e_new) # to_string_pretty(e_old)
    /\ e_uploaded = <<>>
    /\ e_mputs = 0
    /\ \E key \in SetOf(e_exported) : e_remote[key] # Some(e_local[key])

\* C11: a finished export run has put the manifest exactly when it is not a
\* dry run and the mapping of the new manifest differs from the fetched one,
\* and the manifest it put is the new one; while the two mappings agree the
\* two manifests also serialize their entries in the same order, so that
\* their texts agree and nothing is put.
C11_ManifestPut ==
    /\ e_mputs \in {0, 1}
    /\ e_pc = "done" =>
          /\ e_mputs = 1 <=> (~e_dryrun /\ e_new.files # e_old.files)
          /\ e_mputs = 1 => e_rmanifest = Some(to_string_pretty(e_new))
    /\ (e_pc \in {"files", "manifest", "done"} /\ e_new.files = e_old.files) =>
          /\ to_string_pretty(e_new) = to_string_pretty(e_old)
          /\ e_mputs = 0

\* A run that is not a dry run fetched a manifest with entries, skipped a
\* file, uploaded another and put the new manifest.
C11_Witness ==
    /\ e_pc = "done"
    /\ ~e_dryrun
    /\ e_old.files # <<>>
    /\ e_skipped # <<>>
    /\ e_uploaded # <<>>
    /\ e_new.files # e_old.files
    /\ e_mputs = 1
    /\ e_rmanifest = Some(to_string_pretty(e_new))
\* C12: when the bucket holds no manifest.json (it is empty, or get_object
\* answers NoSuchKey) and no request fails, get_manifest returns the empty
\* manifest and the run goes on with it; when list_objects fails, get_object
\* fails otherwise, the body cannot be collected or is not a manifest,
\* get_manifest returns the error, the run has aborted, and it has put no
\* file object and no manifest.
C12_FetchOutcome ==
    e_fetch # NoCall =>
        /\ (e_fetch.fault = "none" /\ ~e_fetch.body.some) =>
              e_fetch.res = Ok(EmptyManifest)
        /\ ~e_fetch.listed => (e_fetch.fault = "list" \/ e_fetch.res = Ok(EmptyManifest))
        /\ (\/ e_fetch.fault = "list"
            \/ e_fetch.listed /\ e_fetch.fault = "get"
            \/ e_fetch.body.some /\ e_fetch.fault = "collect"
            \/ e_fetch.body = Some(CorruptBody) /\ e_fetch.fault = "none") =>
              e_fetch.res.kind = "err"
        /\ e_fetch.res.kind = "ok" =>
              /\ e_pc # "fetch"
              /\ e_pc \in {"files", "manifest", "done"} => e_old = e_fetch.res.val
        /\ e_fetch.res.kind = "err" =>
              /\ e_pc = "failed"
              /\ e_uploaded = <<>>
              /\ e_mputs = 0
              /\ e_rmanifest = e_fetch.body

\* A bucket that holds a file object but no manifest.json: the run fetched
\* the empty manifest and has completed.
C12_Witness ==
    /\ e_fetch # NoCall
    /\ e_fetch.fault = "none"
    /\ e_fetch.listed
    /\ ~e_fetch.body.some
    /\ e_fetch.res = Ok(EmptyManifest)
    /\ e_pc = "done"
    /\ e_exported # <<>>
\* C18: in every step of an export run: a file is diffed or put only after
\* get_manifest has returned the manifest the run compares with; the
\* manifest is put only when no file is left to visit, and after it no file
\* object is put; a run that fails while it reads or uploads a file, and a
\* run that has failed, puts no manifest; and every digest the put manifest
\* records anew belongs to a file object the run has put with that content.
C18_Ordering ==
    [][/\ (e_pc = "files" /\ e_pc' # "failed") =>
             /\ e_fetch # NoCall
             /\ e_fetch.res = Ok(e_old)
       /\ e_remote' # e_remote => (e_pc = "files" /\ e_fetch # NoCall /\ e_mputs = 0)
       /\ e_rmanifest' # e_rmanifest => e_mputs' = e_mputs + 1
       /\ e_mputs' > e_mputs =>
             /\ e_pc = "manifest"
             /\ e_pc' = "done"
             /\ e_todo = <<>>
             /\ e_rmanifest' = Some(to_string_pretty(e_new))
             /\ \A k \in DOMAIN e_new.files :
                   Manifest_lookup(e_old, k) # Some(e_new.files[k]) =>
                      /\ \E i \in 1..Len(e_uploaded) : e_uploaded[i] = k
                      /\ e_remote[k].some
                      /\ fs_digest(e_remote[k].val) = e_new.files[k]
       /\ (e_pc \in {"files", "failed"} /\ e_pc' \in {"failed", "idle"}) =>
             /\ e_mputs = 0
             /\ e_mputs' = 0
             /\ e_rmanifest' = e_rmanifest
      ]_vars

\* A run that put two file objects and then the manifest.
C18_Witness ==
    /\ e_pc = "done"
    /\ ~e_dryrun
    /\ Len(e_uploaded) >= 2
    /\ e_mputs = 1
    /\ e_rmanifest = Some(to_string_pretty(e_new))
\* C19: when the previous run was interrupted after it had put file objects
\* and before it put the manifest, a later run that is not a dry run and has
\* completed leaves, for every file it considered, the file's current
\* content in its remote object and the file's current digest under its key
\* in the remote manifest, whatever was edited in between.
C19_SelfCorrection ==
    (/\ e_pc = "done"
     /\ ~e_dryrun
     /\ e_fetch # NoCall
     /\ e_prev.valid
     /\ ~e_prev.ok
     /\ e_prev.puts) =>
        \A k \in ConsideredKeys :
            /\ e_remote[k] = Some(e_local[k])
            /\ e_rmanifest.some
            /\ \E i \in 1..Len(e_rmanifest.val) :
                  e_rmanifest.val[i] = <<k, fs_digest(e_local[k])>>
\* The names of the Vec returned or kept by zip::export.
NamesOf(seq) == {seq[i] : i \in 1..Len(seq)}

\* C13: zip::export is not ended by a journal that cannot be opened or
\* read; when it has returned its lists, every file it visited whose
\* Journal::open or Journal::bytes failed is in the returned skipped list
\* and not in the exported one, every other visited file is in exported,
\* and every visited file is in exactly one of the two lists.
C13_ZipDegrades ==
    b_op = "zip" =>
        /\ b_out # Panic
        /\ (b_pc = "failed" => b_log[Len(b_log)].what = "zip" \/ b_todo = <<>>)
        /\ (b_pc = "done" /\ b_log # <<>>) =>
              /\ \A i \in 1..Len(b_log) :
                    LET name == b_log[i].name
                        inExported == name \in NamesOf(b_out.val.exported)
                        inSkipped == name \in NamesOf(b_out.val.skipped)
                    IN /\ b_log[i].what \in {"open", "bytes"} =>
                             (inSkipped /\ ~inExported)
                       /\ b_log[i].what = "ok" => (inExported /\ ~inSkipped)
                       /\ inExported # inSkipped
              /\ {b_log[i].name : i \in 1..Len(b_log)} = AllKeys
\* C20: handle_search is never ended by a journal: a file whose Journal::open
\* fails, whose Journal::bytes fails or whose bytes are not text is passed
\* over, the loops go on, and the search returns after it has visited every
\* file of every workspace.
C20_SearchDegrades ==
    b_op = "search" =>
        /\ b_pc # "failed"
        /\ b_out \in {NoCall, Ok("unit")}
        /\ b_pc = "done" => {b_log[i].name : i \in 1..Len(b_log)} = AllKeys
\* C24: when zip::export has returned its lists, every file entry of the
\* archive is named in the exported list and holds the bytes() of that
\* journal, and a file whose Journal::open or Journal::bytes failed has no
\* entry in the archive, not even an empty one.
C24_ArchiveEntries ==
    (b_op = "zip" /\ b_pc = "done") =>
        /\ \A i \in 1..Len(b_archive) :
              b_archive[i].kind = "file" =>
                 /\ b_archive[i].name \in NamesOf(b_out.val.exported)
                 /\ Ok(b_archive[i].data)
                       = Journal_bytes(Journal_open(b_files[b_archive[i].name],
                                                    b_key, TRUE).val).res
        /\ \A i \in 1..Len(b_log) :
              b_log[i].what \in {"open", "bytes"} =>
                 ~\E n \in 1..Len(b_archive) :
                     b_archive[n].kind = "file" /\ b_archive[n].name = b_log[i].name

\* The content Journal::edit handed to the editor, and what the editor left.
EditedContent == Journal_bytes(d_in.journal.val).res.val
EditorText == IF d_in.out.some THEN d_in.out.val ELSE EditedContent

\* A Journal::edit that succeeded and whose editor returned the content as
\* it was.
EditedUnchanged ==
    /\ d_in.kind = "edit"
    /\ d_res = Ok("written")
    /\ EditorText = EditedContent

\* C14 as stated: after a successful Journal::edit whose editor returned the
\* content unchanged, the bytes of the backing file differ from the bytes
\* before the edit, with and without a key.
C14_EditChanges == EditedUnchanged => d_file # d_before

\* The file already starts with the header Journal::write emits without a
\* key; the file already starts with the header Journal::write emits for
\* the nonce it has drawn.
SamePlainHeader ==
    /\ ~d_in.key.some
    /\ Len(d_before.val) >= 2
    /\ SubSeq(d_before.val, 1, 2) = Header_encode(new_non_encrypted)

SameNonceHeader ==
    /\ d_in.key.some
    /\ d_in.journal.val.header.encrypted
    /\ SubSeq(d_before.val, 1, d_in.journal.val.header.size)
          = Header_encode(new_encrypted(d_in.nonce, d_in.journal.val.header.tag))

\* C14 (amended): after a successful Journal::edit whose editor returned the
\* content unchanged, the bytes of the backing file differ from the bytes
\* before the edit, except in exactly two cases where they are the same
\* bytes: the edit uses no key and the file already starts with the
\* version-1 unencrypted header, or the edit uses a key and draws the nonce
\* the stored header already holds.
C14_EditChangesUnless ==
    EditedUnchanged => (d_file = d_before <=> (SamePlainHeader \/ SameNonceHeader))

\* An encrypted journal edited with its key, left unchanged in the editor
\* and stored again under another nonce.
C14_Witness ==
    /\ EditedUnchanged
    /\ d_in.key = Some(StoredKey)
    /\ ~d_in.out.some
    /\ d_before = Some(EncryptedFile)
    /\ d_in.nonce # d_in.journal.val.header.nonce
    /\ d_file # d_before
    /\ d_file.some
    /\ Len(d_file.val) = Len(EncryptedFile)

\* C15: when a create or edit call has returned, whether edit_temp
\* succeeded, failed to write its buffer, failed to launch the editor or
\* failed to read the buffer back, the temporary file edit_temp created is
\* gone, so that the next edit_temp for this filename can create it.
C15_TempRemoved ==
    (/\ d_res # NoCall
     /\ ~d_in.temp.some
     /\ d_in.fault \notin {"create_temp", "remove_temp"}) => ~d_temp.some

\* C16: when Journal::edit has returned an error the backing file holds
\* the bytes it held before the call, and when it has returned Ok the file
\* holds the whole header and payload Journal::write makes of the editor's
\* text.
C16_AtomicOverwrite ==
    (d_res # NoCall /\ d_in.kind = "edit") =>
        IF d_res = Ok("written")
        THEN d_file = Some(Journal_write(d_in.key, EditorText, Ok(d_in.nonce)).bytes)
        ELSE d_file = d_before
\* The content a successful create or edit call handed to Journal::write.
WrittenContent ==
    IF d_in.kind = "edit" THEN EditorText
    ELSE IF d_in.out.some THEN d_in.out.val ELSE Template

\* C21: after every successful create or edit, with no key or with a key of
\* valid length, the stored file decodes to a header whose size is the
\* number of header bytes written (the file is that header followed by as
\* many bytes as the content has), and Journal::open with the same key
\* followed by bytes() returns exactly the content written; this holds
\* along every sequence of edits, with and without a change of key.
C21_StoredRoundTrip ==
    d_res = Ok("written") =>
        LET h == Header_decode(d_file.val)
            j == Journal_open(d_file.val, d_in.key, TRUE)
        IN /\ d_in.key.some => ValidKeyLen(d_in.key.val)
           /\ h.kind = "ok"
           /\ h.val.size = Len(Header_encode(h.val))
           /\ h.val.size <= Len(d_file.val)
           /\ SubSeq(d_file.val, 1, h.val.size) = Header_encode(h.val)
           /\ Len(d_file.val) = h.val.size + Len(WrittenContent)
           /\ h.val.encrypted = d_in.key.some
           /\ j.kind = "ok"
           /\ Journal_bytes(j.val).res = Ok(WrittenContent)

\* A journal stored without a key was edited with a key: the editor saved
\* a text that reads as an encrypted header, and the file is now encrypted.
C21_Witness ==
    /\ d_res = Ok("written")
    /\ d_in.kind = "edit"
    /\ d_in.key = Some(StoredKey)
    /\ d_before.some
    /\ ~Header_decode(d_before.val).val.encrypted
    /\ d_in.out = Some(<<1, 128>>)
    /\ Header_decode(d_file.val).val.encrypted
    /\ Header_decode(d_file.val).val.size = 4 + NONCE_LEN + TAG_LEN
    /\ Journal_bytes(Journal_open(d_file.val, d_in.key, TRUE).val).res = Ok(<<1, 128>>)

\* C23: when a create call has returned an error, whatever the step that
\* failed (the editor, the path already existing, the key refused by
\* encrypt, a write), the target path is as it was before the call: an
\* existing file holds the same bytes and no file has appeared.
C23_CreateAllOrNothing ==
    (/\ d_res # NoCall
     /\ d_in.kind = "create"
     /\ d_res.kind # "ok") => d_file = d_before

\* C22: when both processes have returned and at least one has written,
\* the file is the whole header and payload written by one of them and
\* reads back, with that process's key, as the content that process wrote;
\* it is never a mixture of the two writes.
C22_LastWriterWins ==
    (/\ \A p \in Procs : r_pc[p] \in {"done", "failed"}
     /\ \E p \in Procs : r_pc[p] = "done") =>
        \E p \in Procs :
           /\ r_pc[p] = "done"
           /\ r_file = r_plan[p].header \o r_plan[p].payload
           /\ LET j == Journal_open(r_file, r_key[p], TRUE)
              IN /\ j.kind = "ok"
                 /\ Journal_bytes(j.val).res = Ok(r_buf[p])

\* What encrypt returned, as decrypt takes it.
EncOut ==
    [nonce |-> c_enc.val.nonce, tag |-> c_enc.val.tag, data |-> c_enc.val.ciphertext]

\* decrypt was called with the key of encrypt on what encrypt returned with
\* one bit changed; decrypt was called on what encrypt returned.
OneBitChanged == c_callkey = c_key /\ c_decin \in Tampered(EncOut)
Untampered == c_decin = EncOut

\* C17 as stated: a decrypt call on what encrypt returned with one bit of
\* the ciphertext, tag or nonce changed, or with a different key string,
\* returned an error and no bytes.
C17_TamperRejected ==
    (/\ c_enc # NoCall
     /\ c_enc.kind = "ok"
     /\ c_dec # NoCall
     /\ OneBitChanged \/ (Untampered /\ c_callkey # c_key)) => c_dec.kind = "err"

\* C17 (amended): a decrypt call on what encrypt returned with one bit of
\* the ciphertext, tag or nonce changed, or with a key string whose padded
\* 32-byte form differs from that of the key of encrypt, returned an error
\* and no bytes; a call with a key string of the same padded form (the key
\* with NUL characters appended) returned the plaintext.
C17_TamperRejectedByKeyBytes ==
    (c_enc # NoCall /\ c_enc.kind = "ok" /\ c_dec # NoCall) =>
        /\ (OneBitChanged \/ (Untampered /\ get_key(c_callkey) # get_key(c_key))) =>
              c_dec.kind = "err"
        /\ (Untampered /\ get_key(c_callkey) = get_key(c_key)) => c_dec = Ok(c_data)

\* The ciphertext of a two-byte plaintext with one bit changed was refused.
C17_Witness ==
    /\ c_enc # NoCall
    /\ c_enc.kind = "ok"
    /\ Len(c_data) = MaxPlainLen
    /\ OneBitChanged
    /\ c_decin.data # EncOut.data
    /\ c_dec = Err("AuthenticationFailed")
====
